---- MODULE Spec2Model ----
(***************************************************************************)
(* A model of analyze-question-sentiment.go: the command-line driver       *)
(* (main), the per-tag aggregation (analyzeDir), the result printer        *)
(* (emitResult) and the date handling they rest on.                        *)
(*                                                                         *)
(* A time.Time is modelled as [day, sec, loc]: day is the number of days   *)
(* since 0001-01-01 (the zero Time is day 0, second 0), sec the second of  *)
(* that day in UTC and loc the location the value prints in.               *)
(***************************************************************************)
EXTENDS Integers, Sequences, FiniteSets, TLC

(***************************************************************************)
(* Bounds of the model.                                                    *)
(***************************************************************************)
\* the largest number of records in a generated tag directory
MaxItems == 2

(***************************************************************************)
(* Calendar arithmetic of the time package, as used by the program.        *)
(***************************************************************************)
SecondsPerDay == 86400

\* days from 0001-01-01 to 1970-01-01
UnixEpochDay == 719162

IsLeap(y) == (y % 4 = 0) /\ ((y % 100 # 0) \/ (y % 400 = 0))

\* days before the first of each month in a non-leap year
daysBefore == <<0, 31, 59, 90, 120, 151, 181, 212, 243, 273, 304, 334, 365>>

DaysIn(m, y) ==
    IF m = 2 /\ IsLeap(y) THEN 29 ELSE daysBefore[m + 1] - daysBefore[m]

\* days from 0001-01-01 to the first of January of year y
DaysBeforeYear(y) ==
    LET p == y - 1
    IN  365 * p + (p \div 4) - (p \div 100) + (p \div 400)

\* time.Date(y, m, d, 0, 0, 0, 0, loc) as a day number: the month is
\* normalised into the year, the day of the month is not clamped
DateToDays(y, m, d) ==
    LET m0 == m - 1
        yy == y + (m0 \div 12)
        mm == (m0 % 12) + 1
        leapDay == IF IsLeap(yy) /\ mm >= 3 THEN 1 ELSE 0
    IN  DaysBeforeYear(yy) + daysBefore[mm] + leapDay + d - 1

\* Time.Date(): the civil date of a day number
DaysToCivil(n) ==
    LET n400 == n \div 146097
        r400 == n % 146097
        c100 == r400 \div 36524
        n100 == IF c100 = 4 THEN 3 ELSE c100
        r100 == r400 - 36524 * n100
        n4   == r100 \div 1461
        r4   == r100 % 1461
        c1   == r4 \div 365
        n1   == IF c1 = 4 THEN 3 ELSE c1
        yday == r4 - 365 * n1
        y    == 400 * n400 + 100 * n100 + 4 * n4 + n1 + 1
        leap == IsLeap(y)
        \* the day of the year with the leap day taken out
        adj  == IF leap /\ yday > 59 THEN yday - 1 ELSE yday
        m    == IF leap /\ yday = 59 THEN 2
                ELSE CHOOSE k \in 1..12 : daysBefore[k] <= adj /\ adj < daysBefore[k + 1]
        d    == IF leap /\ yday = 59 THEN 29 ELSE adj - daysBefore[m] + 1
    IN  [y |-> y, m |-> m, d |-> d]

(***************************************************************************)
(* time.Time values and the operations the program applies to them.        *)
(***************************************************************************)
\* time.Time{}: the zero value, which the program reads as "undefined"
ZeroTime == [day |-> 0, sec |-> 0, loc |-> "UTC"]

\* Time.IsZero: the instant is January 1, year 1, 00:00:00 UTC
IsZero(t) == t.day = 0 /\ t.sec = 0

\* Time.Before and Time.After compare instants, whatever the location
Before(t, u) == t.day < u.day \/ (t.day = u.day /\ t.sec < u.sec)

After(t, u) == t.day > u.day \/ (t.day = u.day /\ t.sec > u.sec)

\* time.Unix(sec, 0): the local Time of a Unix time
Unix(sec) ==
    [day |-> UnixEpochDay + (sec \div SecondsPerDay),
     sec |-> sec % SecondsPerDay,
     loc |-> "Local"]

\* a -fromdate or -todate value: the empty string, or the year, month and
\* day fields of a string in 2006-01-02 layout
NoDate == [y |-> 0, m |-> 0, d |-> 0]

\* time.Parse("2006-01-02", date) fails on the empty string and on a month
\* or a day out of range
ParseFails(date) ==
    \/ date = NoDate
    \/ date.y \notin 0..9999
    \/ date.m \notin 1..12
    \/ date.d < 1
    \/ date.d > DaysIn(date.m, date.y)

parseDate(date) ==
    IF ParseFails(date)
    THEN ZeroTime
    ELSE [day |-> DateToDays(date.y, date.m, date.d), sec |-> 0, loc |-> "UTC"]

\* seconds east of UTC of a location
ZoneOffset(loc, localOffset) == IF loc = "Local" THEN localOffset ELSE 0

\* AddDate that adds no month
AddDateNothing(t, months, localOffset) == t

\* t.AddDate(0, months, 0): the civil date of t in its location with the
\* months added and the clock kept, normalised by time.Date
AddDate(t, months, localOffset) ==
    LET off   == ZoneOffset(t.loc, localOffset)
        lsec  == t.sec + off
        lday  == t.day + (lsec \div SecondsPerDay)
        clock == lsec % SecondsPerDay
        c     == DaysToCivil(lday)
        nday  == DateToDays(c.y, c.m + months, c.d)
        usec  == clock - off
    IN  [day |-> nday + (usec \div SecondsPerDay),
         sec |-> usec % SecondsPerDay,
         loc |-> t.loc]

\* t.Format("2006-01-02"): the civil date of t in its location
Format(t, localOffset) ==
    LET lsec == t.sec + ZoneOffset(t.loc, localOffset)
    IN  DaysToCivil(t.day + (lsec \div SecondsPerDay))

(***************************************************************************)
(* Printing of a ratio: float64(n) / float64(total) under %.3f, as a       *)
(* number of thousandths, or the text the float prints as when total = 0.  *)
(* The division rounds the quotient to a significand of 53 bits, and %.3f  *)
(* rounds the float it is given, ties to even.  The float is on the same   *)
(* side of every half thousandth as n/total, so the two roundings differ   *)
(* from the rounding of n/total only when n/total is itself a half         *)
(* thousandth: then the float is n/total exactly (and the tie goes to the  *)
(* even thousandth) or is just above or just below it.                     *)
(***************************************************************************)
\* the bits of a float64 significand after its leading bit
SignificandBits == 52

\* the doublings of n it takes to reach total, for n < total, counted from s
RECURSIVE DoublingsUpTo(_, _, _)
DoublingsUpTo(n, total, s) ==
    IF n >= total THEN s ELSE DoublingsUpTo(2 * n, total, s + 1)

\* the doublings of total that stay at or below n, for n >= total, counted from k
RECURSIVE DoublingsBelow(_, _, _)
DoublingsBelow(n, total, k) ==
    IF 2 * total > n THEN k ELSE DoublingsBelow(n, 2 * total, k + 1)

\* the e with 2^52 <= n * 2^e / total < 2^53: the float64 quotient is
\* n * 2^e / total rounded to an integer, times 2^-e
QuotientScale(n, total) ==
    IF n < total
    THEN SignificandBits + DoublingsUpTo(n, total, 0)
    ELSE SignificandBits - DoublingsBelow(n, total, 0)

\* (r * 2^e) % total
RECURSIVE DoubledMod(_, _, _)
DoubledMod(r, total, e) ==
    IF e = 0 THEN r ELSE DoubledMod((2 * r) % total, total, e - 1)

\* the side of n/total the float64 quotient is on, for 0 < n: 0 when the
\* division is exact, 1 when it rounds up, -1 when it rounds down
QuotientError(n, total) ==
    LET r == DoubledMod(n % total, total, QuotientScale(n, total))
    IN  IF r = 0 THEN 0
        ELSE IF 2 * r > total THEN 1
        ELSE IF 2 * r < total THEN -1
        ELSE 0

FormatRatio(n, total) ==
    IF total = 0
    THEN [number |-> FALSE, thousandths |-> 0,
          text |-> IF n = 0 THEN "NaN" ELSE "+Inf"]
    ELSE LET q  == (1000 * n) \div total
             r2 == 2 * ((1000 * n) % total)
             e  == QuotientError(n, total)
             v  == IF r2 < total THEN q
                   ELSE IF r2 > total THEN q + 1
                   ELSE IF e > 0 THEN q + 1
                   ELSE IF e < 0 THEN q
                   ELSE IF q % 2 = 0 THEN q ELSE q + 1
         IN  [number |-> TRUE, thousandths |-> v, text |-> "%.3f"]

(***************************************************************************)
(* File names and snapshot files.                                          *)
(***************************************************************************)
\* strings.HasSuffix on names held as sequences of characters
HasSuffix(s, suffix) ==
    /\ Len(s) >= Len(suffix)
    /\ SubSeq(s, Len(s) - Len(suffix) + 1, Len(s)) = suffix

SuffixJSON == <<"j", "s", "o", "n">>

\* json.Unmarshal into Reply, for the fields analyzeDir reads: an item
\* without closed_date keeps ClosedDate = 0
UnmarshalItem(it) ==
    [CreationDate |-> it.creation_date,
     ClosedDate   |-> IF it.closed_date = <<>> THEN 0 ELSE it.closed_date[1],
     Score        |-> it.score]

Unmarshal(items) == [i \in 1..Len(items) |-> UnmarshalItem(items[i])]

(***************************************************************************)
(* The state of a run.                                                     *)
(***************************************************************************)
VARIABLES
    \* the command line and the environment, fixed during a run
    dirFlag,        \* -dir
    fromDateFlag,   \* -fromdate
    toDateFlag,     \* -todate
    tagsFlag,       \* -tags, as its comma-separated fields (<<>>: not given)
    bymonthFlag,    \* -bymonth
    fs,             \* the base directory: its listing and the tag directories
    localOffset,    \* seconds east of UTC of the local time zone
    \* main
    pc,             \* the statement main is at; "done" and "fatal" are exits
    fDate, tDate, tags,
    ti,             \* index of the current tag in tags
    d, endDate,     \* the by-month loop's bucket
    \* analyzeDir
    fromDate, toDate, entries,
    ei,             \* index of the current entry in entries
    reply,          \* the items of the file being folded
    ii,             \* index of the current item in reply
    tr,
    \* what the run has written
    out,            \* standard output, line by line
    err             \* the log (standard error)

flags == <<dirFlag, fromDateFlag, toDateFlag, tagsFlag, bymonthFlag, fs, localOffset>>
mainVars == <<fDate, tDate, tags, ti, d, endDate>>
dirVars == <<fromDate, toDate, entries, ei, reply, ii, tr>>
vars == <<flags, pc, mainVars, dirVars, out, err>>

\* var tr tagAnalysisResult
ZeroResult ==
    [total |-> 0, negative |-> 0, closed |-> 0, closedAndNegative |-> 0,
     minDate |-> ZeroTime, maxDate |-> ZeroTime]

\* Accepts with an exclusive lower bound: a record dated exactly at from is dropped
AcceptsAfterFrom(itemDate, from, to) ==
    /\ ~(~IsZero(from) /\ ~After(itemDate, from))
    /\ ~(~IsZero(to) /\ After(itemDate, to))

\* Accepts with an exclusive upper bound: a record dated exactly at to is dropped
AcceptsBeforeTo(itemDate, from, to) ==
    /\ ~(~IsZero(from) /\ Before(itemDate, from))
    /\ ~(~IsZero(to) /\ ~Before(itemDate, to))

\* the window test of analyzeDir: neither of its two "continue" is taken
Accepts(itemDate, from, to) ==
    /\ ~(~IsZero(from) /\ Before(itemDate, from))
    /\ ~(~IsZero(to) /\ After(itemDate, to))

\* TrackDates that only initialises: both dates stay at the first accepted item
TrackDatesFirstOnly(r, itemDate) ==
    [r EXCEPT !.minDate = IF IsZero(@) THEN itemDate ELSE @,
              !.maxDate = IF IsZero(@) THEN itemDate ELSE @]

\* TrackDates with maxDate taken from every accepted item: the last one stays
TrackDatesLatestSeen(r, itemDate) ==
    [r EXCEPT !.minDate = IF IsZero(@) \/ Before(itemDate, @) THEN itemDate ELSE @,
              !.maxDate = itemDate]

\* the update of minDate and maxDate by an accepted item
TrackDates(r, itemDate) ==
    [r EXCEPT !.minDate = IF IsZero(@) \/ Before(itemDate, @) THEN itemDate ELSE @,
              !.maxDate = IF IsZero(@) \/ After(itemDate, @) THEN itemDate ELSE @]

\* the update of the four counters by an accepted item
Tally(r, neg, clo) ==
    [r EXCEPT !.total = @ + 1,
              !.negative = @ + (IF neg THEN 1 ELSE 0),
              !.closed = @ + (IF clo THEN 1 ELSE 0),
              !.closedAndNegative = @ + (IF clo /\ neg THEN 1 ELSE 0)]

\* Count with a closed date of 0 taken as closed
CountClosedAtZero(r, item) ==
    TrackDates(Tally(r, item.Score < 0, item.ClosedDate >= 0), Unix(item.CreationDate))

\* Count with closedAndNegative counted outside the test of the closed date
CountNegativeUnnested(r, item) ==
    LET neg == item.Score < 0
        t   == Tally(r, neg, item.ClosedDate > 0)
    IN  TrackDates([t EXCEPT !.closedAndNegative =
                                r.closedAndNegative + (IF neg THEN 1 ELSE 0)],
                   Unix(item.CreationDate))

\* the body of analyzeDir's loop over reply.Items for one accepted item
Count(r, item) ==
    TrackDates(Tally(r, item.Score < 0, item.ClosedDate > 0), Unix(item.CreationDate))

\* one iteration of analyzeDir's loop over reply.Items
FoldItem(r, item, from, to) ==
    IF Accepts(Unix(item.CreationDate), from, to) THEN Count(r, item) ELSE r

\* strings.Split(*tagsFlag, ","): the empty string splits into one empty tag
Split(fields) == IF fields = <<>> THEN <<"">> ELSE fields

\* the subfolder names readFolderNames keeps of a listing
Folders(listing) ==
    LET RECURSIVE Keep(_)
        Keep(i) ==
            IF i > Len(listing) THEN <<>>
            ELSE (IF listing[i].isDir THEN <<listing[i].name>> ELSE <<>>) \o Keep(i + 1)
    IN  Keep(1)

\* the directory baseDir/tag as os.ReadDir finds it
TagDir(tag) ==
    IF tag \in DOMAIN fs.dirs THEN fs.dirs[tag] ELSE [ok |-> FALSE, files |-> <<>>]

\* the line emitResult prints
ResultLine(date, r) ==
    [kind  |-> "result",
     date  |-> Format(IF IsZero(date) THEN r.maxDate ELSE date, localOffset),
     total |-> r.total,
     negativeRatio          |-> FormatRatio(r.negative, r.total),
     closedRatio            |-> FormatRatio(r.closed, r.total),
     closedAndNegativeRatio |-> FormatRatio(r.closedAndNegative, r.total)]

\* the line main prints when it starts a tag
HeaderLine(tag) == [kind |-> "header", tag |-> tag]

\* log.Fatal: the message is logged and the process exits
Fatal(msg) ==
    /\ err' = Append(err, msg)
    /\ pc' = "fatal"

\* failonf that logs and lets the analysis return what it has
failonfKeepsGoing(pattern) ==
    /\ err' = err \o <<"error", pattern>>
    /\ pc' = "emit"

\* failonf with an error: the error is logged, then the message, and the
\* process exits
failonf(pattern) ==
    /\ err' = err \o <<"error", pattern>>
    /\ pc' = "fatal"

(***************************************************************************)
(* main                                                                    *)
(***************************************************************************)
\* flag.Parse to the discovery of the tags: the dates and the tags are
\* parsed, then -dir is checked
ParseFlags ==
    /\ pc = "start"
    /\ fDate' = parseDate(fromDateFlag)
    /\ tDate' = parseDate(toDateFlag)
    /\ tags' = Split(tagsFlag)
    /\ IF dirFlag = ""
       THEN Fatal("-dir must be provided and cannot be empty")
       ELSE /\ pc' = IF tagsFlag = <<>> THEN "discover" ELSE "tags"
            /\ err' = err
    /\ UNCHANGED <<flags, ti, d, endDate, dirVars, out>>

\* tags = readFolderNames(*dirFlag)
ReadFolderNames ==
    /\ pc = "discover"
    /\ IF fs.base.ok
       THEN /\ tags' = Folders(fs.base.listing)
            /\ pc' = "tags"
            /\ err' = err
       ELSE /\ failonf("reading directory")
            /\ tags' = tags
    /\ UNCHANGED <<flags, fDate, tDate, ti, d, endDate, dirVars, out>>

\* analyzeDir is entered with a window
Call(from, to) ==
    /\ fromDate' = from
    /\ toDate' = to
    /\ pc' = "readdir"

\* the head of "for _, tag := range tags": the tag's header is printed, then
\* the by-month loop or the single analysis starts
NextTag ==
    /\ pc = "tags"
    /\ IF ti > Len(tags)
       THEN /\ pc' = "done"
            /\ UNCHANGED <<d, fromDate, toDate, out, err>>
       ELSE /\ out' = Append(out, HeaderLine(tags[ti]))
            /\ IF bymonthFlag
               THEN IF IsZero(fDate) \/ IsZero(tDate)
                    THEN /\ Fatal("-bymonth requires -fromdate and -todate, for now")
                         /\ UNCHANGED <<d, fromDate, toDate>>
                    ELSE /\ d' = fDate
                         /\ pc' = "month"
                         /\ UNCHANGED <<fromDate, toDate, err>>
               ELSE /\ Call(fDate, tDate)
                    /\ UNCHANGED <<d, err>>
    /\ UNCHANGED <<flags, fDate, tDate, tags, ti, endDate, entries, ei, reply, ii, tr>>

\* the head of "for d := fDate; d.Before(tDate);": the next bucket is
\* analysed, or the tag is finished
MonthLoop ==
    /\ pc = "month"
    /\ IF Before(d, tDate)
       THEN /\ endDate' = AddDate(d, 1, localOffset)
            /\ Call(d, endDate')
            /\ ti' = ti
       ELSE /\ ti' = ti + 1
            /\ pc' = "tags"
            /\ UNCHANGED <<endDate, fromDate, toDate>>
    /\ UNCHANGED <<flags, fDate, tDate, tags, d, entries, ei, reply, ii, tr, out, err>>

\* EmitResult with a bucket labelled by its start
EmitResultLabelledByStart ==
    /\ pc = "emit"
    /\ out' = Append(out, ResultLine(IF bymonthFlag THEN d ELSE tDate, tr))
    /\ IF bymonthFlag
       THEN /\ d' = endDate
            /\ pc' = "month"
            /\ ti' = ti
       ELSE /\ ti' = ti + 1
            /\ pc' = "tags"
            /\ d' = d
    /\ UNCHANGED <<flags, fDate, tDate, tags, endDate, dirVars, err>>

\* emitResult(endDate, res) and d = endDate in by-month mode,
\* emitResult(tDate, res) and the next tag otherwise
EmitResult ==
    /\ pc = "emit"
    /\ out' = Append(out, ResultLine(IF bymonthFlag THEN endDate ELSE tDate, tr))
    /\ IF bymonthFlag
       THEN /\ d' = endDate
            /\ pc' = "month"
            /\ ti' = ti
       ELSE /\ ti' = ti + 1
            /\ pc' = "tags"
            /\ d' = d
    /\ UNCHANGED <<flags, fDate, tDate, tags, endDate, dirVars, err>>

(***************************************************************************)
(* analyzeDir                                                              *)
(***************************************************************************)
\* entries, err := os.ReadDir(dirName); var tr tagAnalysisResult
ReadDir ==
    /\ pc = "readdir"
    /\ LET dir == TagDir(tags[ti])
       IN  IF dir.ok
           THEN /\ entries' = [i \in 1..Len(dir.files) |-> dir.files[i].name]
                /\ ei' = 1
                /\ tr' = ZeroResult
                /\ pc' = "entry"
                /\ err' = err
           ELSE /\ failonf("reading directory")
                /\ UNCHANGED <<entries, ei, tr>>
    /\ UNCHANGED <<flags, mainVars, fromDate, toDate, reply, ii, out>>

\* the file of a directory an entry names
FileNamed(dir, name) ==
    LET i == CHOOSE k \in 1..Len(dir.files) : dir.files[k].name = name
    IN  dir.files[i]

\* the head of "for _, entry := range entries": an entry whose name has the
\* suffix is read and unmarshalled, any other is passed over; after the last
\* entry analyzeDir returns
NextEntry ==
    /\ pc = "entry"
    /\ IF ei > Len(entries)
       THEN /\ pc' = "emit"
            /\ UNCHANGED <<ei, reply, ii, err>>
       ELSE IF HasSuffix(entries[ei], SuffixJSON)
            THEN LET file == FileNamed(TagDir(tags[ti]), entries[ei])
                 IN  IF ~file.readable
                     THEN /\ failonf("reading file")
                          /\ UNCHANGED <<ei, reply, ii>>
                     ELSE IF ~file.valid
                          THEN /\ failonf("unmarshalling")
                               /\ UNCHANGED <<ei, reply, ii>>
                          ELSE /\ reply' = Unmarshal(file.items)
                               /\ ii' = 1
                               /\ pc' = "item"
                               /\ UNCHANGED <<ei, err>>
            ELSE /\ ei' = ei + 1
                 /\ UNCHANGED <<pc, reply, ii, err>>
    /\ UNCHANGED <<flags, mainVars, fromDate, toDate, entries, tr, out>>

\* the head of "for _, item := range reply.Items" and its body for one item
NextItem ==
    /\ pc = "item"
    /\ IF ii > Len(reply)
       THEN /\ ei' = ei + 1
            /\ pc' = "entry"
            /\ UNCHANGED <<ii, tr>>
       ELSE /\ tr' = FoldItem(tr, reply[ii], fromDate, toDate)
            /\ ii' = ii + 1
            /\ UNCHANGED <<ei, pc>>
    /\ UNCHANGED <<flags, mainVars, fromDate, toDate, entries, reply, out, err>>

Next ==
    \/ ParseFlags
    \/ ReadFolderNames
    \/ NextTag
    \/ MonthLoop
    \/ EmitResult
    \/ ReadDir
    \/ NextEntry
    \/ NextItem

(***************************************************************************)
(* The runs checked: command lines and base directories.                   *)
(***************************************************************************)
Civil(y, m, day) == [y |-> y, m |-> m, d |-> day]

\* the Unix time of midnight UTC of a civil date
UnixOf(y, m, day) == (DateToDays(y, m, day) - UnixEpochDay) * SecondsPerDay

Item(c, s, closed) == [creation_date |-> c, score |-> s, closed_date |-> closed]

NameP1 == <<"p", "1", ".", "j", "s", "o", "n">>
NameP2 == <<"p", "2", ".", "j", "s", "o", "n">>
NameP3 == <<"p", "3", ".", "j", "s", "o", "n">>
\* a name that ends in json without the dot
NameNoDot == <<"q", "j", "s", "o", "n">>
NameText == <<"r", ".", "t", "x", "t">>

File(name, items) == [name |-> name, readable |-> TRUE, valid |-> TRUE, items |-> items]
Unreadable(name) == [name |-> name, readable |-> FALSE, valid |-> FALSE, items |-> <<>>]
Malformed(name) == [name |-> name, readable |-> TRUE, valid |-> FALSE, items |-> <<>>]

Dir(files) == [ok |-> TRUE, files |-> files]
NoDir == [ok |-> FALSE, files |-> <<>>]

\* a closed_date that is present and > 0
ClosedAt == <<1700000000>>

\* records around the window 2021-01-01 .. 2021-03-01: the day before it,
\* its first instant, its last instant, one second and one day after it
FoldDates ==
    {UnixOf(2020, 12, 31), UnixOf(2021, 1, 1), UnixOf(2021, 3, 1),
     UnixOf(2021, 3, 1) + 1, UnixOf(2021, 3, 2)}

FoldItems ==
    {Item(c, -3, ClosedAt) : c \in FoldDates}
    \cup {Item(UnixOf(2021, 2, 1), -1, <<0>>),
          Item(UnixOf(2021, 2, 1), 5, <<0>>),
          Item(UnixOf(2021, 2, 1), 0, ClosedAt),
          Item(UnixOf(2021, 2, 1), -1, <<>>)}

\* the sequences of at most n elements of S
RECURSIVE SeqsUpTo(_, _)
SeqsUpTo(S, n) ==
    IF n = 0 THEN {<<>>}
    ELSE LET shorter == SeqsUpTo(S, n - 1)
         IN  shorter \cup {Append(q, x) : q \in {r \in shorter : Len(r) = n - 1}, x \in S}

\* tag directories of two snapshot files holding at most MaxItems records
TwoFiles(q, k) ==
    Dir(<<File(NameP1, [i \in 1..k |-> q[i]]),
          File(NameP2, [i \in 1..(Len(q) - k) |-> q[k + i]])>>)

FoldDirs ==
    UNION {{TwoFiles(q, k) : k \in 0..Len(q)} : q \in SeqsUpTo(FoldItems, MaxItems)}

FoldFromDates == {NoDate, Civil(2021, 1, 1)}
FoldToDates == {NoDate, Civil(2021, 3, 1)}

BaseOf(tagNames) ==
    [ok |-> TRUE, listing |-> [i \in 1..Len(tagNames) |-> [name |-> tagNames[i], isDir |-> TRUE]]]

InitProgram ==
    /\ pc = "start"
    /\ fDate = ZeroTime /\ tDate = ZeroTime /\ tags = <<>>
    /\ ti = 1
    /\ d = ZeroTime /\ endDate = ZeroTime
    /\ fromDate = ZeroTime /\ toDate = ZeroTime
    /\ entries = <<>> /\ ei = 1
    /\ reply = <<>> /\ ii = 1
    /\ tr = ZeroResult
    /\ out = <<>> /\ err = <<>>

\* one tag analysed over one window, over every small directory
InitFold ==
    /\ dirFlag = "data"
    /\ bymonthFlag = FALSE
    /\ tagsFlag = <<"go">>
    /\ localOffset = 0
    /\ fromDateFlag \in FoldFromDates
    /\ toDateFlag \in FoldToDates
    /\ \E dir \in FoldDirs :
          fs = [base |-> BaseOf(<<"go">>), dirs |-> [t \in {"go"} |-> dir]]
    /\ InitProgram

\* records around the month boundaries of the by-month windows below
MonthDates ==
    <<UnixOf(2020, 12, 31), UnixOf(2021, 1, 1), UnixOf(2021, 1, 31),
      UnixOf(2021, 2, 1), UnixOf(2021, 2, 20), UnixOf(2021, 3, 1),
      UnixOf(2021, 3, 3), UnixOf(2021, 4, 2)>>

\* the subsequence of MonthDates at the indices of S, as records
RECURSIVE Pick(_, _)
Pick(S, i) ==
    IF i > Len(MonthDates) THEN <<>>
    ELSE (IF i \in S THEN <<Item(MonthDates[i], -1, <<>>)>> ELSE <<>>) \o Pick(S, i + 1)

MonthDirs ==
    {Dir(<<File(NameP1, Pick(S, 1))>>) :
        S \in {T \in SUBSET (1..Len(MonthDates)) : Cardinality(T) <= MaxItems}}

MonthFromDates == {Civil(2021, 1, 1), Civil(2021, 1, 31)}
MonthToDates == {Civil(2021, 1, 1), Civil(2021, 2, 15), Civil(2021, 3, 1), Civil(2021, 3, 15)}

\* one tag analysed month by month
InitMonth ==
    /\ dirFlag = "data"
    /\ bymonthFlag = TRUE
    /\ tagsFlag = <<"go">>
    /\ localOffset = 0
    /\ fromDateFlag \in MonthFromDates
    /\ toDateFlag \in MonthToDates
    /\ \E dir \in MonthDirs :
          fs = [base |-> BaseOf(<<"go">>), dirs |-> [t \in {"go"} |-> dir]]
    /\ InitProgram

\* the directory of the end-to-end scenario: scores -1, 5, -3 and closed
\* dates 0, 0, 1700000000 over two files
ScenarioDir ==
    Dir(<<File(NameP1, <<Item(UnixOf(2021, 1, 1), -1, <<0>>),
                         Item(UnixOf(2021, 2, 1), 5, <<0>>)>>),
          File(NameP2, <<Item(UnixOf(2021, 3, 1), -3, ClosedAt)>>)>>)

GoDirs ==
    {ScenarioDir,
     Dir(<<>>),
     \* a name without the dot, holding a record, beside a text file
     Dir(<<File(NameP1, <<Item(UnixOf(2021, 2, 1), 5, <<>>)>>),
           File(NameNoDot, <<Item(UnixOf(2021, 2, 1), -1, ClosedAt)>>),
           Malformed(NameText)>>),
     \* a name without the dot that is not a snapshot
     Dir(<<File(NameP1, <<Item(UnixOf(2021, 2, 1), 5, <<>>)>>),
           Malformed(NameNoDot)>>),
     Dir(<<File(NameP1, <<Item(UnixOf(2021, 1, 1), -1, <<>>)>>),
           Unreadable(NameP2),
           File(NameP3, <<Item(UnixOf(2021, 2, 1), -1, <<>>)>>)>>),
     Dir(<<Malformed(NameP1)>>),
     NoDir}

RustDirs ==
    {Dir(<<File(NameP1, <<Item(UnixOf(2021, 1, 15), 0, ClosedAt)>>)>>),
     Dir(<<Malformed(NameText)>>)}

BaseDirs ==
    {[ok |-> TRUE,
      listing |-> <<[name |-> "go", isDir |-> TRUE],
                    [name |-> "notes.txt", isDir |-> FALSE],
                    [name |-> "rust", isDir |-> TRUE]>>],
     [ok |-> TRUE, listing |-> <<>>],
     [ok |-> FALSE, listing |-> <<>>]}

DriverFromDates == {NoDate, Civil(2021, 1, 1)}
\* 2021-02-30 is not a date
DriverToDates == {NoDate, Civil(2021, 3, 1), Civil(2021, 2, 30)}
DriverTags == {<<>>, <<"go">>, <<"go", "rust">>, <<"rust", "nosuch">>}
LocalOffsets == {0, -3600}

\* every shape of command line over a few base directories
InitDriver ==
    /\ dirFlag \in {"", "data"}
    /\ bymonthFlag \in BOOLEAN
    /\ tagsFlag \in DriverTags
    /\ localOffset \in LocalOffsets
    /\ fromDateFlag \in DriverFromDates
    /\ toDateFlag \in DriverToDates
    /\ \E base \in BaseDirs, go \in GoDirs, rust \in RustDirs :
          fs = [base |-> base,
                dirs |-> [t \in {"go", "rust"} |-> IF t = "go" THEN go ELSE rust]]
    /\ InitProgram

Init == InitFold \/ InitMonth \/ InitDriver

Spec == Init /\ [][Next]_vars

\* the run is one sequential process that is never suspended: it takes its
\* next step as long as it has one
FairSpec == Spec /\ WF_vars(Next)

(***************************************************************************)
(* What the properties below are stated in: Unix seconds and the records   *)
(* of a directory, independent of the Time values of the program.          *)
(***************************************************************************)
\* the Unix time of a Time other than the zero Time
SecondsOf(t) == (t.day - UnixEpochDay) * SecondsPerDay + t.sec

\* a creation date c lies in the window: an unset (zero) bound excludes nothing
InWindow(c, from, to) ==
    /\ (IsZero(from) \/ c >= SecondsOf(from))
    /\ (IsZero(to) \/ c <= SecondsOf(to))

DotJSON == <<".", "j", "s", "o", "n">>

\* a directory of snapshot files: it can be listed, and every entry is a
\* readable, well-formed file named *.json
SnapshotOnly(dir) ==
    /\ dir.ok
    /\ \A k \in 1..Len(dir.files) :
          /\ HasSuffix(dir.files[k].name, DotJSON)
          /\ dir.files[k].readable /\ dir.files[k].valid

\* the records of a directory, each named by its file and its place in it
Records(dir) ==
    UNION {{<<k, i>> : i \in 1..Len(dir.files[k].items)} : k \in 1..Len(dir.files)}

RecordAt(dir, p) == dir.files[p[1]].items[p[2]]

AcceptedRecords(dir, from, to) ==
    {p \in Records(dir) : InWindow(RecordAt(dir, p).creation_date, from, to)}

IsNegative(it) == it.score < 0

\* closed_date is present and > 0
IsClosed(it) == it.closed_date # <<>> /\ it.closed_date[1] > 0

\* the directory of the tag being analysed
CurrentDir == TagDir(tags[ti])

(***************************************************************************)
(* C1: analyzeDir accepts a record iff its creation date is at or after    *)
(* from (or from is unset) and at or before to (or to is unset): both      *)
(* bounds are inclusive.  Stated of every step that folds a record: the    *)
(* record is counted exactly when it lies in the window, and the           *)
(* accumulator is left alone otherwise.                                    *)
(***************************************************************************)
C1_AcceptIffInWindow ==
    [][(pc = "item" /\ ii <= Len(reply)) =>
          IF InWindow(reply[ii].CreationDate, fromDate, toDate)
          THEN tr'.total = tr.total + 1
          ELSE tr' = tr]_vars

\* a file holding a record dated exactly at to and one a day later has been
\* folded under a window with both bounds set: the first was counted, the
\* second was not
C1_Witness ==
    /\ pc = "item" /\ ii = 3 /\ Len(reply) = 2
    /\ ~IsZero(fromDate) /\ ~IsZero(toDate)
    /\ reply[1].CreationDate = SecondsOf(toDate)
    /\ reply[2].CreationDate = SecondsOf(toDate) + SecondsPerDay
    /\ tr.total = 1

(***************************************************************************)
(* C2: when analyzeDir returns, total is the number of accepted records of *)
(* the tag's snapshot files, negative the number of those with score < 0,  *)
(* closed the number with a closed date present and > 0, and               *)
(* closedAndNegative the number with both.                                 *)
(***************************************************************************)
C2_CountsMatchRecords ==
    (pc = "emit" /\ SnapshotOnly(CurrentDir)) =>
        LET acc == AcceptedRecords(CurrentDir, fromDate, toDate)
        IN  /\ tr.total = Cardinality(acc)
            /\ tr.negative =
                 Cardinality({p \in acc : IsNegative(RecordAt(CurrentDir, p))})
            /\ tr.closed =
                 Cardinality({p \in acc : IsClosed(RecordAt(CurrentDir, p))})
            /\ tr.closedAndNegative =
                 Cardinality({p \in acc : /\ IsClosed(RecordAt(CurrentDir, p))
                                          /\ IsNegative(RecordAt(CurrentDir, p))})

\* the end-to-end scenario has been analysed: scores -1, 5, -3 and closed
\* dates 0, 0, 1700000000 over two files, all inside the window
C2_Witness ==
    /\ pc = "emit"
    /\ CurrentDir = ScenarioDir
    /\ ~IsZero(fromDate) /\ ~IsZero(toDate)
    /\ tr.total = 3 /\ tr.negative = 2 /\ tr.closed = 1 /\ tr.closedAndNegative = 1

(***************************************************************************)
(* C3: in every state of the fold and in the result, negative <= total,    *)
(* closed <= total, closedAndNegative <= min(negative, closed), and the    *)
(* four counters are >= 0.                                                 *)
(***************************************************************************)
C3_CounterBounds ==
    /\ tr.total >= 0 /\ tr.negative >= 0 /\ tr.closed >= 0 /\ tr.closedAndNegative >= 0
    /\ tr.negative <= tr.total
    /\ tr.closed <= tr.total
    /\ tr.closedAndNegative <= tr.negative
    /\ tr.closedAndNegative <= tr.closed

\* the fold is inside a file, with a closed record of negative score counted
\* and a record still to come
C3_Witness ==
    /\ pc = "item" /\ ii = 2 /\ Len(reply) = 2
    /\ tr.total = 1 /\ tr.closedAndNegative = 1

(***************************************************************************)
(* Calendar months on civil dates, for the by-month properties.            *)
(***************************************************************************)
CivilLess(a, b) ==
    \/ a.y < b.y
    \/ a.y = b.y /\ a.m < b.m
    \/ a.y = b.y /\ a.m = b.m /\ a.d < b.d

\* the same day of the next month; a day the next month does not have
\* spills into the month after it
PlusOneMonth(c) ==
    LET ny == IF c.m = 12 THEN c.y + 1 ELSE c.y
        nm == IF c.m = 12 THEN 1 ELSE c.m + 1
    IN  IF c.d <= DaysIn(nm, ny)
        THEN Civil(ny, nm, c.d)
        ELSE Civil(ny, nm + 1, c.d - DaysIn(nm, ny))

\* the ends d_1, d_2, ... of the buckets from c: one while d_i < to
RECURSIVE BucketEnds(_, _)
BucketEnds(c, to) ==
    IF CivilLess(c, to)
    THEN <<PlusOneMonth(c)>> \o BucketEnds(PlusOneMonth(c), to)
    ELSE <<>>

CivilUnix(c) == UnixOf(c.y, c.m, c.d)

\* the records of a directory created from start to end, both included
CountBetween(dir, start, end) ==
    Cardinality({p \in Records(dir) :
        /\ CivilUnix(start) <= RecordAt(dir, p).creation_date
        /\ RecordAt(dir, p).creation_date <= CivilUnix(end)})

\* the header of a tag and the label and total of each of its buckets
MonthLinesOf(tag, from, to) ==
    LET ends == BucketEnds(from, to)
    IN  <<[kind |-> "header", tag |-> tag]>> \o
        [i \in 1..Len(ends) |->
            [kind  |-> "result",
             date  |-> ends[i],
             total |-> CountBetween(TagDir(tag), IF i = 1 THEN from ELSE ends[i - 1], ends[i])]]

RECURSIVE MonthLines(_, _, _)
MonthLines(tagList, from, to) ==
    IF tagList = <<>> THEN <<>>
    ELSE MonthLinesOf(Head(tagList), from, to) \o MonthLines(Tail(tagList), from, to)

\* an output line without its ratios
Brief(line) ==
    IF line.kind = "header" THEN line
    ELSE [kind |-> "result", date |-> line.date, total |-> line.total]

IsPrefix(p, q) == Len(p) <= Len(q) /\ \A i \in 1..Len(p) : p[i] = q[i]

\* -fromdate and -todate are both dates
BothDates == ~ParseFails(fromDateFlag) /\ ~ParseFails(toDateFlag)

TagsKnown == pc \notin {"start", "discover"}

AllSnapshotDirs == \A i \in 1..Len(tags) : SnapshotOnly(TagDir(tags[i]))

(***************************************************************************)
(* C4: in by-month mode the output is, tag by tag, the tag's header and    *)
(* one line per bucket in increasing date order: bucket i runs from d_i to *)
(* d_(i+1) = d_i + 1 calendar month, d_0 = from, one bucket while          *)
(* d_i < to, each line labelled with the end of its bucket and counting    *)
(* the records from its start to its end.  The output is at every moment   *)
(* a prefix of these lines and is all of them when the run is done.        *)
(***************************************************************************)
C4_MonthBuckets ==
    (bymonthFlag /\ BothDates /\ TagsKnown /\ AllSnapshotDirs) =>
        LET lines == MonthLines(tags, fromDateFlag, toDateFlag)
            brief == [i \in 1..Len(out) |-> Brief(out[i])]
        IN  /\ IsPrefix(brief, lines)
            /\ (pc = "done" => brief = lines)

\* from 2021-01-01 to 2021-03-01: two buckets, labelled 2021-02-01 and
\* 2021-03-01, each of them with a record
C4_Witness ==
    /\ bymonthFlag /\ pc = "done"
    /\ fromDateFlag = Civil(2021, 1, 1) /\ toDateFlag = Civil(2021, 3, 1)
    /\ Len(out) = 3
    /\ out[2].date = Civil(2021, 2, 1) /\ out[2].total = 1
    /\ out[3].date = Civil(2021, 3, 1) /\ out[3].total = 1

(***************************************************************************)
(* C5: with -bymonth and -fromdate or -todate missing, the run aborts with *)
(* a usage error and nothing is written before the abort, whatever the tag *)
(* set is.  Stated of the runs that pass the -dir check and the listing of *)
(* the base directory: the output stays empty, and the run does not end    *)
(* without the usage error.                                                *)
(***************************************************************************)
MonthUsage == "-bymonth requires -fromdate and -todate, for now"

DatesMissing == IsZero(parseDate(fromDateFlag)) \/ IsZero(parseDate(toDateFlag))

C5_UsageErrorBeforeOutput ==
    (bymonthFlag /\ DatesMissing /\ dirFlag # "" /\ (tagsFlag # <<>> \/ fs.base.ok)) =>
        /\ out = <<>>
        /\ (pc = "fatal" => err = <<MonthUsage>>)
        /\ pc # "done"

(***************************************************************************)
(* C6: a result with total = 0 is marked as having no ratios: no line of   *)
(* the output carries ratios that were divided by a total of zero and put  *)
(* through the number format.                                              *)
(***************************************************************************)
DividedByZero(ratio) == ~ratio.number /\ ratio.text \in {"NaN", "+Inf"}

C6_EmptyResultMarked ==
    \A i \in 1..Len(out) :
        out[i].kind = "result" =>
            /\ ~DividedByZero(out[i].negativeRatio)
            /\ ~DividedByZero(out[i].closedRatio)
            /\ ~DividedByZero(out[i].closedAndNegativeRatio)

(***************************************************************************)
(* C7: a failure to list a directory, to read a file or to parse one       *)
(* aborts the run: the step that meets it writes nothing to the output and *)
(* ends the run, nothing is written after it, and a result line is only    *)
(* ever written for an analysis that returned without a failure.           *)
(***************************************************************************)
IOFailures == {"reading directory", "reading file", "unmarshalling"}

C7_FailureAbortsRun ==
    [][/\ (err # <<>>) => (out' = out)
       /\ (err' # err /\ err'[Len(err')] \in IOFailures) => (out' = out /\ pc' = "fatal")
       /\ (out' # out /\ out'[Len(out')].kind = "result") =>
             (pc = "emit" /\ err = <<>> /\ err' = <<>>)]_vars

\* the second tag's directory could not be listed: the run stopped after the
\* first tag's result and the second tag's header
C7_Witness ==
    /\ pc = "fatal" /\ err = <<"error", "reading directory">>
    /\ Len(out) = 3
    /\ out[2].kind = "result" /\ out[3].kind = "header"
    /\ ti = 2

(***************************************************************************)
(* C8: only the entries whose name ends in .json are read and parsed: the  *)
(* file being folded is named *.json, and a failure to read or to parse a  *)
(* file is met at an entry named *.json.                                   *)
(***************************************************************************)
C8_ReadsOnlyDotJSON ==
    /\ (pc = "item") => HasSuffix(entries[ei], DotJSON)
    /\ (pc = "fatal" /\ err[Len(err)] \in {"reading file", "unmarshalling"}) =>
           HasSuffix(entries[ei], DotJSON)

(***************************************************************************)
(* C9: the by-month loop terminates: each iteration moves d forward by at  *)
(* least one day, every run ends, and with from >= to the loop emits no    *)
(* bucket.                                                                 *)
(***************************************************************************)
Ended == pc \in {"done", "fatal"}

ResultLines == {i \in 1..Len(out) : out[i].kind = "result"}

C9_MonthLoopTerminates ==
    /\ [][(pc = "emit" /\ bymonthFlag) => d'.day >= d.day + 1]_vars
    /\ [][(pc = "month" /\ ~CivilLess(fromDateFlag, toDateFlag)) =>
             (pc' = "tags" /\ ResultLines = {})]_vars
    /\ <>Ended

\* a by-month run has gone through three buckets of a tag and is done
C9_Witness ==
    /\ bymonthFlag /\ pc = "done"
    /\ Cardinality(ResultLines) = 3
    /\ Len(tags) = 1

(***************************************************************************)
(* C10: in single-window mode without a -todate, the label of a result     *)
(* line is the latest creation date among the accepted records, so it is   *)
(* always the (local) date of some accepted record.                        *)
(***************************************************************************)
\* the local dates of the accepted records of a directory
AcceptedDates(dir, from, to) ==
    {Format(Unix(RecordAt(dir, p).creation_date), localOffset) :
        p \in AcceptedRecords(dir, from, to)}

\* the single-window run has printed its k-th tag: the result is line 2k
SinglePrinted(k) == ~bymonthFlag /\ TagsKnown /\ 2 * k <= Len(out)

C10_LabelOfSomeRecord ==
    \A k \in 1..Len(tags) :
        (SinglePrinted(k) /\ IsZero(tDate) /\ SnapshotOnly(TagDir(tags[k]))) =>
            out[2 * k].date \in AcceptedDates(TagDir(tags[k]), fDate, tDate)

(***************************************************************************)
(* C11: after every processed record, when total > 0, minDate is the       *)
(* minimum and maxDate the maximum creation date over the records accepted *)
(* so far, so minDate <= maxDate and both lie inside the window; when      *)
(* total = 0 both are unset.                                               *)
(***************************************************************************)
\* analyzeDir is inside its loops or has just returned
InFold == pc \in {"entry", "item", "emit"}

\* the records of a directory the fold has gone through: those of the files
\* before the current entry and those before the current item
Processed(dir) ==
    {p \in Records(dir) : \/ p[1] < ei
                          \/ p[1] = ei /\ pc = "item" /\ p[2] < ii}

\* the creation dates of the accepted records the fold has gone through
DatesSoFar ==
    {RecordAt(CurrentDir, p).creation_date :
        p \in Processed(CurrentDir) \cap AcceptedRecords(CurrentDir, fromDate, toDate)}

Minimum(S) == CHOOSE x \in S : \A y \in S : x <= y
Maximum(S) == CHOOSE x \in S : \A y \in S : x >= y

C11_MinMaxDates ==
    (InFold /\ SnapshotOnly(CurrentDir)) =>
        IF tr.total = 0
        THEN DatesSoFar = {} /\ IsZero(tr.minDate) /\ IsZero(tr.maxDate)
        ELSE /\ DatesSoFar # {}
             /\ ~IsZero(tr.minDate) /\ ~IsZero(tr.maxDate)
             /\ SecondsOf(tr.minDate) = Minimum(DatesSoFar)
             /\ SecondsOf(tr.maxDate) = Maximum(DatesSoFar)
             /\ SecondsOf(tr.minDate) <= SecondsOf(tr.maxDate)
             /\ InWindow(SecondsOf(tr.minDate), fromDate, toDate)
             /\ InWindow(SecondsOf(tr.maxDate), fromDate, toDate)

\* under a window with both bounds set, two records of a file were accepted,
\* the later one first: the second lowered minDate and left maxDate alone
C11_Witness ==
    /\ pc = "item" /\ ii = 3 /\ Len(reply) = 2
    /\ ~IsZero(fromDate) /\ ~IsZero(toDate)
    /\ tr.total = 2
    /\ reply[1].CreationDate > reply[2].CreationDate
    /\ SecondsOf(tr.minDate) = reply[2].CreationDate
    /\ SecondsOf(tr.maxDate) = reply[1].CreationDate

(***************************************************************************)
(* analyzeDir as a function of the files it reads, in the order it reads   *)
(* them: the fold of FoldItem over the items of each file in turn.         *)
(***************************************************************************)
\* "for _, item := range reply.Items" from item i on
RECURSIVE FoldFile(_, _, _, _, _)
FoldFile(r, items, i, from, to) ==
    IF i > Len(items) THEN r
    ELSE FoldFile(FoldItem(r, items[i], from, to), items, i + 1, from, to)

\* "for _, entry := range entries" from file k on, over snapshot files
RECURSIVE FoldFiles(_, _, _, _, _)
FoldFiles(r, contents, k, from, to) ==
    IF k > Len(contents) THEN r
    ELSE FoldFiles(FoldFile(r, Unmarshal(contents[k]), 1, from, to), contents, k + 1, from, to)

\* the bijections of 1..n
Perms(n) == {f \in [1..n -> 1..n] : \A i, j \in 1..n : f[i] = f[j] => i = j}

\* the orders the items of a file can be in
Reordered(items) == {[i \in 1..Len(items) |-> items[f[i]]] : f \in Perms(Len(items))}

\* the contents of the files of a directory with the files in any order and
\* the records of each file in any order
Rearrangements(dir) ==
    LET n      == Len(dir.files)
        orders == UNION {Reordered(dir.files[k].items) : k \in 1..n}
        inner  == {h \in [1..n -> orders] : \A k \in 1..n : h[k] \in Reordered(dir.files[k].items)}
    IN  {[k \in 1..n |-> h[g[k]]] : g \in Perms(n), h \in inner}

(***************************************************************************)
(* C12: the result of analyzeDir for a window does not depend on the order *)
(* of the snapshot files nor on the order of the records in a file: the    *)
(* result the run returns is the result of the fold over every             *)
(* rearrangement of the files and of the records of each file.             *)
(***************************************************************************)
C12_OrderIndependent ==
    (pc = "emit" /\ SnapshotOnly(CurrentDir)) =>
        \A contents \in Rearrangements(CurrentDir) :
            FoldFiles(ZeroResult, contents, 1, fromDate, toDate) = tr

\* two files were analysed under a window with both bounds set, each with an
\* accepted record, the later record in the first file, one record negative
\* and closed and the other neither
C12_Witness ==
    /\ pc = "emit" /\ SnapshotOnly(CurrentDir)
    /\ ~IsZero(fromDate) /\ ~IsZero(toDate)
    /\ Len(CurrentDir.files) = 2
    /\ Len(CurrentDir.files[1].items) = 1 /\ Len(CurrentDir.files[2].items) = 1
    /\ CurrentDir.files[1].items[1].creation_date > CurrentDir.files[2].items[1].creation_date
    /\ tr.total = 2 /\ tr.negative = 1 /\ tr.closedAndNegative = 1
    /\ Cardinality(Rearrangements(CurrentDir)) = 2

(***************************************************************************)
(* The buckets a finished by-month run went through, read off its output:  *)
(* every tag has a header and one result line per bucket, labelled with    *)
(* the bucket's end.                                                       *)
(***************************************************************************)
\* a by-month run over directories of snapshot files has ended normally
MonthRunDone ==
    /\ bymonthFlag /\ pc = "done"
    /\ Len(tags) > 0 /\ AllSnapshotDirs

\* the number of buckets of each tag
NBuckets == (Len(out) \div Len(tags)) - 1

\* the result line of bucket i of the k-th tag
BucketLine(k, i) == out[(k - 1) * (NBuckets + 1) + 1 + i]

\* the end d_i of bucket i and its start d_(i-1), d_0 = from, as Unix times
BucketEnd(i) == CivilUnix(BucketLine(1, i).date)
BucketStart(i) == IF i = 1 THEN CivilUnix(fromDateFlag) ELSE BucketEnd(i - 1)

\* the buckets whose window holds the creation date c
BucketsOf(c) == {i \in 1..NBuckets : BucketStart(i) <= c /\ c <= BucketEnd(i)}

\* the records of a directory created from from to the end of the last bucket
InBuckets(dir) ==
    {p \in Records(dir) : /\ CivilUnix(fromDateFlag) <= RecordAt(dir, p).creation_date
                          /\ RecordAt(dir, p).creation_date <= BucketEnd(NBuckets)}

\* those of them created exactly at the end of a bucket that is not the last
OnInteriorBoundary(dir) ==
    {p \in InBuckets(dir) :
        \E i \in 1..(NBuckets - 1) : RecordAt(dir, p).creation_date = BucketEnd(i)}

RECURSIVE SumOfTotals(_, _)
SumOfTotals(k, i) == IF i = 0 THEN 0 ELSE BucketLine(k, i).total + SumOfTotals(k, i - 1)

\* the contents of the files of a directory, in the order they are listed
Contents(dir) == [k \in 1..Len(dir.files) |-> dir.files[k].items]

(***************************************************************************)
(* C13: in by-month mode every record created from from to the end of the  *)
(* last bucket is counted in at least one bucket, in exactly one unless    *)
(* its creation date is an interior boundary d_i, and then in exactly the  *)
(* two buckets i and i+1; the bucket totals add up to one per record and   *)
(* bucket holding it, which is at least the total of a single analysis     *)
(* from from to the end of the last bucket, and equal to it iff no record  *)
(* is on an interior boundary.                                             *)
(***************************************************************************)
C13_BucketsCoverRecords ==
    (MonthRunDone /\ NBuckets > 0) =>
        \A k \in 1..Len(tags) :
            LET dir    == TagDir(tags[k])
                sum    == SumOfTotals(k, NBuckets)
                single == FoldFiles(ZeroResult, Contents(dir), 1, fDate, d).total
            IN  /\ \A p \in InBuckets(dir) :
                      LET c == RecordAt(dir, p).creation_date
                      IN  /\ BucketsOf(c) # {}
                          /\ (p \notin OnInteriorBoundary(dir)) => Cardinality(BucketsOf(c)) = 1
                          /\ \A i \in 1..(NBuckets - 1) :
                                c = BucketEnd(i) => BucketsOf(c) = {i, i + 1}
                /\ \A p \in Records(dir) \ InBuckets(dir) :
                      BucketsOf(RecordAt(dir, p).creation_date) = {}
                /\ sum = Cardinality({<<p, i>> \in Records(dir) \X (1..NBuckets) :
                                         i \in BucketsOf(RecordAt(dir, p).creation_date)})
                /\ sum = Cardinality(InBuckets(dir)) + Cardinality(OnInteriorBoundary(dir))
                /\ single = Cardinality(InBuckets(dir))
                /\ sum >= single
                /\ (sum = single) <=> (OnInteriorBoundary(dir) = {})

\* from 2021-01-01 to 2021-03-15 there are three buckets; a record at each of
\* the interior boundaries 2021-02-01 and 2021-03-01 gives the totals 1, 2, 1
C13_Witness ==
    /\ MonthRunDone /\ NBuckets = 3
    /\ fromDateFlag = Civil(2021, 1, 1) /\ toDateFlag = Civil(2021, 3, 15)
    /\ Cardinality(OnInteriorBoundary(TagDir(tags[1]))) = 2
    /\ BucketLine(1, 1).total = 1 /\ BucketLine(1, 2).total = 2 /\ BucketLine(1, 3).total = 1

(***************************************************************************)
(* C14: in by-month mode no bucket counts a record created after -todate:  *)
(* every record a bucket accepts has from <= creation date <= to, also     *)
(* when to is not reached exactly by stepping whole months from from.      *)
(* Stated of every step of a by-month run that folds a record and counts   *)
(* it.                                                                     *)
(***************************************************************************)
C14_NoRecordAfterToDate ==
    [][(bymonthFlag /\ pc = "item" /\ ii <= Len(reply) /\ tr'.total = tr.total + 1) =>
          InWindow(reply[ii].CreationDate, fDate, tDate)]_vars

====
